---- MODULE Spec2Model ----
(***************************************************************************)
(* Model of features/link_cmd.py: the probe pool (find_first_live_url,     *)
(* worker_task, check_url) as an asyncio state machine, and the template   *)
(* expander (generate_urls_from_template).                                 *)
(*                                                                         *)
(* asyncio runs one coroutine at a time and switches only at an await, so  *)
(* every action below is the code between two awaits of one coroutine.     *)
(* Cancellation follows Python >= 3.8: CancelledError is a BaseException,  *)
(* so "except Exception" does not absorb it.                               *)
(***************************************************************************)
EXTENDS Integers, Sequences, FiniteSets, TLC

\* ------------------------------------------------------------------ bounds
\* Longest candidate list handed to find_first_live_url.
MaxN == 6
\* Largest number of candidates that probe Live.
MaxLive == 2
\* Largest number of raw values the caller supplies for one tag.
MaxVals == 4
\* Longest raw gacha name drawn from NameAlphabet.
MaxNameLen == 3

\* ------------------------------------------------------- program constants
\* The pool and the ceilings are scaled down so that the state space is finite
\* and small: link_cmd.py:19 sets WORKERS = 4, link_cmd.py:20 sets
\* BATCH_SIZE = 2000 and link_cmd.py:22 sets MAX_COMBINATIONS = 20000. With
\* the values below a partition of at most MaxN candidates still spans several
\* batches, a batch still holds several URLs, and value lists of at most
\* MaxVals entries still reach products on both sides of the ceiling.
WORKERS == 2
BATCH_SIZE == 2
MAX_COMBINATIONS == 12

None == "None"

\* The candidates are pairwise different URLs; position i (0-based, as in the
\* code) of a list of length n holds UrlPool[i + 1].
UrlPool == <<"u0", "u1", "u2", "u3", "u4", "u5", "u6", "u7", "u8", "u9">>

Workers == 0 .. (WORKERS - 1)

VARIABLES
    urls,         \* the candidate list (argument of find_first_live_url)
    live,         \* the URLs for which check_url returns True
    cpc,          \* find_first_live_url: position of the coordinator
    chunks,       \* chunks[w]: the partition of worker w
    tasks,        \* the worker tasks created (line 176)
    pending,      \* the coordinator's pending set
    found,        \* the coordinator's found
    aborting,     \* the awaiting caller was cancelled (CancelledError in flight)
    wpc,          \* worker_task: position of each worker
    wi,           \* worker_task: loop variable i (offset of the batch)
    inflight,     \* indexes (1-based) of the batch whose check_url still runs
    results,      \* the batch's gather results so far
    wret,         \* the value a worker returned
    cancelReq,    \* Task.cancel() was called on the worker and not yet delivered
    progress,     \* progress[0], the shared checked-count
    found_event,  \* asyncio.Event shared by the workers
    probed,       \* number of check_url calls per URL
    sink,         \* the text last written to progress_msg
    session,      \* the aiohttp.ClientSession of the call: none, open, closed
    reported      \* the workers whose success edit_text (line 152) went through

VARIABLES
    template,     \* generate_urls_from_template: the template argument
    tag_values,   \* generate_urls_from_template: the dict tag -> list of values
    gen_pc,       \* position inside __generate_urls_from_template_impl
    gen_tags,     \* its local tags
    gen_lists,    \* its local lists
    gen_total,    \* its local total
    gen_l,        \* index (1-based) of the list the count loop is at
    gen_c,        \* index (1-based) of the combination the product loop is at
    gen_urls,     \* its local urls
    gen_err       \* the count formatted into the ValueError, None if none

VARIABLES
    gacha_in,     \* expand_gacha_values: its argument values_list
    gacha_pc,     \* position of the call of expand_gacha_values
    gacha_out     \* the list it returned

VARIABLES
    c_pc,         \* check_url: position inside the coroutine
    c_head,       \* how the HEAD request of this URL ends
    c_get,        \* how the GET request of this URL ends
    c_reqs,       \* the requests check_url issued, in order
    c_ret,        \* <<b>> once check_url returned the boolean b, <<>> before
    c_cancelled   \* the task running this check_url was cancelled (lines 196-197)

VARIABLES
    h_pc,         \* handle_tag_input: position of the conversation
    h_expect,     \* context.user_data['expecting_template']
    h_marker,     \* context.user_data['template']
    h_tags,       \* context.user_data['tags']
    h_idx,        \* context.user_data['current_index']
    h_values,     \* context.user_data['values']
    h_splash,     \* handle_tag_input: its local splash_urls
    h_urls,       \* handle_tag_input: its local urls
    h_reply       \* the text last sent with reply_text

gvars == <<gacha_in, gacha_pc, gacha_out>>

cvars == <<c_pc, c_head, c_get, c_reqs, c_ret, c_cancelled>>

hvars == <<h_pc, h_expect, h_marker, h_tags, h_idx, h_values, h_splash, h_urls,
           h_reply>>

evars == <<template, tag_values, gen_pc, gen_tags, gen_lists, gen_total, gen_l,
           gen_c, gen_urls, gen_err>>

svars == <<urls, live, cpc, chunks, tasks, pending, found, aborting, wpc, wi,
           inflight, results, wret, cancelReq, progress, found_event, probed,
           sink, session, reported>>

\* ------------------------------------------------------------------ helpers
Min(a, b) == IF a < b THEN a ELSE b

\* Python's s[start::step]: the elements at 0-based indexes start, start+step,
\* ... below len(s).
\* Variant of Slice: s[start:], the step forgotten.
SliceNoStep(s, start, step) == SubSeq(s, start + 1, Len(s))
RECURSIVE Slice(_, _, _)
Slice(s, start, step) ==
    IF start >= Len(s) THEN <<>>
    ELSE <<s[start + 1]>> \o Slice(s, start + step, step)

\* chunks = [urls[i::WORKERS] for i in range(WORKERS)]
Partition(us) == [w \in Workers |-> Slice(us, w, WORKERS)]

\* Variant of Batch: urls_chunk[i:i+BATCH_SIZE-1], one URL short.
BatchShort(w) ==
    SubSeq(chunks[w], wi[w] + 1, Min(wi[w] + BATCH_SIZE - 1, Len(chunks[w])))
\* batch = urls_chunk[i:i+BATCH_SIZE]
Batch(w) == SubSeq(chunks[w], wi[w] + 1, Min(wi[w] + BATCH_SIZE, Len(chunks[w])))

\* check_url(session, u): True iff the URL answers 200 to HEAD or to GET.
CheckUrl(u) == u \in live

\* The scan "for idx, ok in enumerate(results): if ok: ..." : the 1-based index
\* of the first True, 0 when there is none.
\* Variant of FirstOk: the scan looks at the second result only.
FirstOkAfterHead(res, k) == IF Len(res) >= 2 /\ res[2] THEN 2 ELSE 0
RECURSIVE FirstOk(_, _)
FirstOk(res, k) ==
    IF k > Len(res) THEN 0
    ELSE IF res[k] THEN k
    ELSE FirstOk(res, k + 1)

Done(w) == wpc[w] \in {"done", "cancelled"}

\* Variant of StopRequested: the loop never looks at found_event.
StopNever == FALSE
\* found_event.is_set(), line 125
StopRequested == found_event

\* Task.cancel() on every task of ts that is not done.
CancelAll(ts) == [w \in Workers |-> IF w \in ts /\ ~Done(w) THEN TRUE ELSE cancelReq[w]]

\* Variant of GatherFinished: the tasks are not awaited.
GatherNoWait(ts) == TRUE
\* await asyncio.gather(*ts, return_exceptions=True): done once every task of
\* ts is done.
GatherFinished(ts) == \A w \in ts : Done(w)

Range(s) == {s[k] : k \in 1 .. Len(s)}

\* Variant of TaskResult: the value a task returned is dropped.
TaskResultDropped(w) == None
\* d.result(), with CancelledError and Exception mapped to None (lines 187-192)
TaskResult(w) == IF wpc[w] = "done" THEN wret[w] ELSE None

\* --------------------------------------------------------------------- Init
InitSearch ==
    /\ \E n \in 0 .. MaxN : urls = SubSeq(UrlPool, 1, n)
    /\ live \in {l \in SUBSET Range(urls) : Cardinality(l) <= MaxLive}
    /\ cpc = "idle"
    /\ chunks = [w \in Workers |-> <<>>]
    /\ tasks = {}
    /\ pending = {}
    /\ found = None
    /\ aborting = FALSE
    /\ wpc = [w \in Workers |-> "none"]
    /\ wi = [w \in Workers |-> 0]
    /\ inflight = [w \in Workers |-> {}]
    /\ results = [w \in Workers |-> <<>>]
    /\ wret = [w \in Workers |-> None]
    /\ cancelReq = [w \in Workers |-> FALSE]
    /\ progress = 0
    /\ found_event = FALSE
    /\ probed = [u \in Range(UrlPool) |-> 0]
    /\ sink = <<"start">>
    /\ session = "none"
    /\ reported = {}

\* ------------------------------------------------- find_first_live_url
\* Variant of NoCandidates: the empty list is not singled out.
NoCandidatesNever(us) == FALSE
\* "total = len(urls); if total == 0", lines 166-167
NoCandidates(us) == Len(us) = 0

\* Lines 166-181: the empty list returns at once; otherwise partition, create
\* one task per non-empty chunk and enter the FIRST_COMPLETED loop.
Call ==
    /\ cpc = "idle"
    /\ IF NoCandidates(urls)
       THEN /\ cpc' = "returned"
            /\ UNCHANGED <<chunks, tasks, pending, wpc, session>>
       ELSE /\ chunks' = Partition(urls)
            /\ session' = "open"
            /\ tasks' = {w \in Workers : chunks'[w] # <<>>}
            /\ wpc' = [w \in Workers |-> IF w \in tasks' THEN "start" ELSE "none"]
            /\ pending' = tasks'
            /\ cpc' = IF tasks' = {} THEN "returned" ELSE "wait"
    /\ UNCHANGED <<evars, gvars, cvars, hvars>>
    /\ UNCHANGED <<urls, live, found, aborting, wi, inflight, results, wret,
                   cancelReq, progress, found_event, probed, sink, reported>>

\* Lines 185-204: asyncio.wait returned with the tasks that are done; the first
\* of them (in the set's iteration order) with a truthy result is taken, the
\* pending tasks are cancelled and awaited.
WaitWake ==
    /\ cpc = "wait"
    /\ \E w \in pending : Done(w)
    /\ LET done == {w \in pending : Done(w)}
           rest == pending \ done
           hits == {w \in done : TaskResult(w) # None}
       IN  IF hits # {}
           THEN /\ \E d \in hits : found' = TaskResult(d)
                /\ cancelReq' = CancelAll(rest)
                /\ pending' = rest
                /\ cpc' = "cancelwait"
           ELSE /\ pending' = rest
                /\ cpc' = IF rest = {} THEN "exhausted" ELSE "wait"
                /\ UNCHANGED <<found, cancelReq>>
    /\ UNCHANGED <<evars, gvars, cvars, hvars>>
    /\ UNCHANGED <<session, reported, urls, live, chunks, tasks, aborting, wpc, wi, inflight,
                   results, wret, progress, found_event, probed, sink>>

\* Lines 199-204, 213-218: the gather of the cancelled tasks finished; leave
\* both loops and enter the finally block.
CancelWaitDone ==
    /\ cpc = "cancelwait"
    /\ GatherFinished(pending)
    /\ pending' = {}
    /\ cpc' = "finalwait"
    /\ UNCHANGED <<evars, gvars, cvars, hvars>>
    /\ UNCHANGED <<session, reported, urls, live, chunks, tasks, found, aborting, wpc, wi, inflight,
                   results, wret, cancelReq, progress, found_event, probed, sink>>

\* Lines 206-212: nothing found in the loop; gather all tasks and take the
\* first non-empty str among their results (in task order).
ExhaustDone ==
    /\ cpc = "exhausted"
    /\ GatherFinished(tasks)
    /\ LET strs == {w \in tasks : TaskResult(w) # None}
       IN  found' = IF strs = {} THEN found
                    ELSE TaskResult(CHOOSE w \in strs : \A v \in strs : w <= v)
    /\ cpc' = "finalwait"
    /\ UNCHANGED <<evars, gvars, cvars, hvars>>
    /\ UNCHANGED <<session, reported, urls, live, chunks, tasks, pending, aborting, wpc, wi,
                   inflight, results, wret, cancelReq, progress, found_event,
                   probed, sink>>

\* Lines 213-220: the finally block's gather finished; the "async with" of line
\* 175 closes the session; return found, or let the CancelledError of an
\* aborted call propagate.
FinalDone ==
    /\ cpc = "finalwait"
    /\ GatherFinished(tasks)
    /\ cpc' = IF aborting THEN "aborted" ELSE "returned"
    /\ session' = "closed"
    /\ UNCHANGED <<evars, gvars, cvars, hvars>>
    /\ UNCHANGED <<urls, live, chunks, tasks, pending, found, aborting, wpc, wi,
                   inflight, results, wret, cancelReq, progress, found_event,
                   probed, sink, reported>>

\* The task awaiting find_first_live_url is cancelled while the coordinator is
\* suspended: CancelledError is raised at the await, the finally block cancels
\* every task that is not done (lines 215-217) and gathers them (line 218).
Abort ==
    /\ cpc \in {"wait", "cancelwait", "exhausted", "finalwait"}
    /\ ~aborting
    /\ aborting' = TRUE
    /\ cancelReq' = CancelAll(tasks)
    /\ cpc' = "finalwait"
    /\ UNCHANGED <<evars, gvars, cvars, hvars>>
    /\ UNCHANGED <<session, reported, urls, live, chunks, tasks, pending, found, wpc, wi, inflight,
                   results, wret, progress, found_event, probed, sink>>

\* --------------------------------------------------------------- worker_task
\* Variant of Counted: BATCH_SIZE is added, whatever the length of the batch.
CountedFull(w) == BATCH_SIZE
\* "progress[0] += len(batch)", line 133
Counted(w) == Len(Batch(w))

\* Variant of AfterEdit: no "except Exception: pass"; the exception of a failed
\* edit_text ends the task.
AfterEditRaises(ok, pc) == IF ok THEN pc ELSE "done"
\* Where the worker is once edit_text was called: the call returns (ok) or
\* raises an Exception that lines 141-142 and 153-154 absorb; the worker goes
\* on at the same place in both cases.
AfterEdit(ok, pc) == pc

\* Variant of AfterMiss: no sleep after the last batch of the partition.
AfterMissNoLastPause(w) ==
    IF wi[w] + BATCH_SIZE >= Len(chunks[w]) THEN "start" ELSE "sleep"
\* Line 158: a batch without hit is followed by asyncio.sleep(SLEEP_PER_BATCH),
\* the last batch of the partition included.
AfterMiss(w) == "sleep"

\* Lines 124-130: top of the for loop, reached when the task first runs and
\* after each sleep. The range is exhausted (line 159), or found_event is set
\* (line 126), or the next batch is handed to gather, which calls check_url
\* once for every URL of the batch.
LoopHead(w) ==
    /\ wpc[w] \in {"start", "sleep"}
    /\ ~cancelReq[w]
    /\ IF wi[w] >= Len(chunks[w]) \/ StopRequested
       THEN /\ wpc' = [wpc EXCEPT ![w] = "done"]
            /\ wret' = [wret EXCEPT ![w] = None]
            /\ UNCHANGED <<inflight, results, probed>>
       ELSE /\ wpc' = [wpc EXCEPT ![w] = "gather"]
            /\ inflight' = [inflight EXCEPT ![w] = 1 .. Len(Batch(w))]
            /\ results' = [results EXCEPT ![w] = [k \in 1 .. Len(Batch(w)) |-> FALSE]]
            /\ probed' = [u \in DOMAIN probed |->
                            IF u \in Range(Batch(w)) THEN probed[u] + 1 ELSE probed[u]]
            /\ UNCHANGED wret
    /\ UNCHANGED <<evars, gvars, cvars, hvars>>
    /\ UNCHANGED <<session, reported, urls, live, cpc, chunks, tasks, pending, found, aborting, wi,
                   cancelReq, progress, found_event, sink>>

\* Lines 104-116: one check_url of the batch returns. check_url absorbs every
\* exception (bare except), a cancellation included, so it always returns.
ProbeDone(w, k) ==
    /\ wpc[w] = "gather"
    /\ k \in inflight[w]
    /\ inflight' = [inflight EXCEPT ![w] = @ \ {k}]
    /\ results' = [results EXCEPT ![w][k] = CheckUrl(Batch(w)[k])]
    /\ UNCHANGED <<evars, gvars, cvars, hvars>>
    /\ UNCHANGED <<session, reported, urls, live, cpc, chunks, tasks, pending, found, aborting, wpc,
                   wi, wret, cancelReq, progress, found_event, probed, sink>>

\* Lines 130-140: gather finished. A cancelled worker gets CancelledError here
\* (gather raises it once all its children are done). Otherwise the counter
\* is advanced and the progress text is sent; edit_text may fail, which leaves
\* the message as it was.
GatherDone(w) ==
    /\ wpc[w] = "gather"
    /\ inflight[w] = {}
    /\ IF cancelReq[w]
       THEN /\ wpc' = [wpc EXCEPT ![w] = "cancelled"]
            /\ cancelReq' = [cancelReq EXCEPT ![w] = FALSE]
            /\ UNCHANGED <<progress, sink>>
       ELSE /\ progress' = progress + Counted(w)
            /\ \E ok \in BOOLEAN :
                 /\ sink' = IF ok THEN <<"progress", progress', Len(urls)>> ELSE sink
                 /\ wpc' = [wpc EXCEPT ![w] = AfterEdit(ok, "progress")]
            /\ UNCHANGED cancelReq
    /\ UNCHANGED <<evars, gvars, cvars, hvars>>
    /\ UNCHANGED <<session, reported, urls, live, cpc, chunks, tasks, pending, found, aborting, wi,
                   inflight, results, wret, found_event, probed>>

\* Lines 141-158: edit_text returned or raised an Exception (absorbed). Scan the
\* results: on the first True set found_event and send the success text,
\* otherwise sleep.
ProgressDone(w) ==
    /\ wpc[w] = "progress"
    /\ ~cancelReq[w]
    /\ IF FirstOk(results[w], 1) # 0
       THEN /\ found_event' = TRUE
            /\ \E ok \in BOOLEAN :
                 /\ sink' = IF ok THEN <<"found", Batch(w)[FirstOk(results[w], 1)]>>
                                  ELSE sink
                 /\ reported' = IF ok THEN reported \cup {w} ELSE reported
                 /\ wpc' = [wpc EXCEPT ![w] = AfterEdit(ok, "report")]
            /\ UNCHANGED wi
       ELSE /\ wpc' = [wpc EXCEPT ![w] = AfterMiss(w)]
            /\ wi' = [wi EXCEPT ![w] = @ + BATCH_SIZE]
            /\ UNCHANGED <<found_event, sink, reported>>
    /\ UNCHANGED <<evars, gvars, cvars, hvars>>
    /\ UNCHANGED <<session, urls, live, cpc, chunks, tasks, pending, found, aborting,
                   inflight, results, wret, cancelReq, progress, probed>>

\* Lines 153-155: the success edit_text returned or raised; return found_url.
ReportDone(w) ==
    /\ wpc[w] = "report"
    /\ ~cancelReq[w]
    /\ wret' = [wret EXCEPT ![w] = Batch(w)[FirstOk(results[w], 1)]]
    /\ wpc' = [wpc EXCEPT ![w] = "done"]
    /\ UNCHANGED <<evars, gvars, cvars, hvars>>
    /\ UNCHANGED <<session, reported, urls, live, cpc, chunks, tasks, pending, found, aborting, wi,
                   inflight, results, cancelReq, progress, found_event, probed,
                   sink>>

\* A cancelled worker that is not inside gather gets CancelledError at its
\* await (before its first step, in edit_text, or in asyncio.sleep) and ends.
CancelDeliver(w) ==
    /\ cancelReq[w]
    /\ wpc[w] \in {"start", "sleep", "progress", "report"}
    /\ wpc' = [wpc EXCEPT ![w] = "cancelled"]
    /\ cancelReq' = [cancelReq EXCEPT ![w] = FALSE]
    /\ UNCHANGED <<evars, gvars, cvars, hvars>>
    /\ UNCHANGED <<session, reported, urls, live, cpc, chunks, tasks, pending, found, aborting, wi,
                   inflight, results, wret, progress, found_event, probed, sink>>

\* ------------------------------------------------------------------ strings
\* A string is a sequence of one-character strings.
LowerAlpha == <<"a", "b", "c", "d", "e", "f", "g", "h", "i", "j", "k", "l", "m",
                "n", "o", "p", "q", "r", "s", "t", "u", "v", "w", "x", "y", "z">>
UpperAlpha == <<"A", "B", "C", "D", "E", "F", "G", "H", "I", "J", "K", "L", "M",
                "N", "O", "P", "Q", "R", "S", "T", "U", "V", "W", "X", "Y", "Z">>
DigitAlpha == <<"0", "1", "2", "3", "4", "5", "6", "7", "8", "9">>

IsLower(c) == c \in Range(LowerAlpha)
IsUpper(c) == c \in Range(UpperAlpha)
IsDigit(c) == c \in Range(DigitAlpha)
\* the class [A-Za-z0-9] of _tag_re
IsAlnum(c) == IsLower(c) \/ IsUpper(c) \/ IsDigit(c)

IndexIn(alpha, c) == CHOOSE i \in 1 .. Len(alpha) : alpha[i] = c
UpperChar(c) == IF IsLower(c) THEN UpperAlpha[IndexIn(LowerAlpha, c)] ELSE c
LowerChar(c) == IF IsUpper(c) THEN LowerAlpha[IndexIn(UpperAlpha, c)] ELSE c

\* str.upper(), str.lower()
StrUpper(s) == [i \in 1 .. Len(s) |-> UpperChar(s[i])]
StrLower(s) == [i \in 1 .. Len(s) |-> LowerChar(s[i])]

\* str.title(): a cased character is upper-cased when the character before it
\* is uncased (or there is none) and lower-cased otherwise.
RECURSIVE TitleFrom(_, _, _)
TitleFrom(s, i, prevCased) ==
    IF i > Len(s) THEN <<>>
    ELSE LET c == s[i]
             cased == IsLower(c) \/ IsUpper(c)
             out == IF ~cased THEN c
                    ELSE IF prevCased THEN LowerChar(c) ELSE UpperChar(c)
         IN  <<out>> \o TitleFrom(s, i + 1, cased)
StrTitle(s) == TitleFrom(s, 1, FALSE)

\* str.capitalize()
StrCapitalize(s) ==
    IF s = <<>> THEN <<>> ELSE <<UpperChar(s[1])>> \o StrLower(Tail(s))

\* "p in s" for strings
IsSubstr(p, s) ==
    \E i \in 0 .. (Len(s) - Len(p)) : SubSeq(s, i + 1, i + Len(p)) = p

\* the class [\s_-] of the split in expand_gacha_name_base
IsSep(c) == c \in {" ", "_", "-"}

\* re.split(r'[\s_-]+', s): the pieces between maximal runs of separators,
\* empty pieces at the ends included.
RECURSIVE SkipSep(_, _)
SkipSep(s, i) == IF i <= Len(s) /\ IsSep(s[i]) THEN SkipSep(s, i + 1) ELSE i
RECURSIVE SplitFrom(_, _, _)
SplitFrom(s, i, cur) ==
    IF i > Len(s) THEN <<cur>>
    ELSE IF IsSep(s[i]) THEN <<cur>> \o SplitFrom(s, SkipSep(s, i), <<>>)
    ELSE SplitFrom(s, i + 1, Append(cur, s[i]))
SplitSep(s) == SplitFrom(s, 1, <<>>)

\* "".join(parts)
RECURSIVE Join(_)
Join(parts) == IF parts = <<>> THEN <<>> ELSE Head(parts) \o Join(Tail(parts))

\* str.replace(old, new): every non-overlapping occurrence, left to right.
RECURSIVE ReplaceAll(_, _, _)
ReplaceAll(s, old, new) ==
    IF Len(s) < Len(old) THEN s
    ELSE IF SubSeq(s, 1, Len(old)) = old
         THEN new \o ReplaceAll(SubSeq(s, Len(old) + 1, Len(s)), old, new)
         ELSE <<s[1]>> \o ReplaceAll(Tail(s), old, new)

\* urllib.parse.quote(v, safe=''): letters, digits and "_.-~" are kept, every
\* other character becomes its %XX escape.
PercentCode(c) ==
    CASE c = "/" -> <<"%", "2", "F">>
      [] c = " " -> <<"%", "2", "0">>
      [] c = "[" -> <<"%", "5", "B">>
      [] c = "]" -> <<"%", "5", "D">>
      [] c = ":" -> <<"%", "3", "A">>
      [] c = "%" -> <<"%", "2", "5">>
RECURSIVE Quote(_)
Quote(s) ==
    IF s = <<>> THEN <<>>
    ELSE (IF IsAlnum(s[1]) \/ s[1] \in {"_", ".", "-", "~"}
          THEN <<s[1]>> ELSE PercentCode(s[1])) \o Quote(Tail(s))

\* ----------------------------------------------------------- gacha expansion
\* "if x not in seen: seen.add(x); uniq.append(x)": first occurrences, in order
RECURSIVE Dedupe(_, _)
Dedupe(xs, seen) ==
    IF xs = <<>> THEN <<>>
    ELSE IF Head(xs) \in seen THEN Dedupe(Tail(xs), seen)
    ELSE <<Head(xs)>> \o Dedupe(Tail(xs), seen \cup {Head(xs)})

\* "if v not in variants: variants.append(v)"
AppendNew(xs, x) == IF x \in Range(xs) THEN xs ELSE Append(xs, x)

\* lines 46-76
expand_gacha_name_base(name) ==
    LET lower == StrLower(name)
        v1 == AppendNew(<<>>, name)
        v2 == AppendNew(v1, StrTitle(name))
        v3 == AppendNew(v2, lower)
        parts == SplitSep(lower)
        camel == Join([k \in 1 .. Len(parts) |-> StrCapitalize(parts[k])])
        v4 == IF IsSubstr(<<"t", "o", "k", "e", "n">>, lower)
                 /\ IsSubstr(<<"w", "h", "e", "e", "l">>, lower)
              THEN AppendNew(v3, camel) ELSE v3
    IN  Dedupe(v4, {})

\* Variant of Suffixed: range(2, 6), the suffix -6 missing.
SuffixedShort(b) == <<b>> \o [i \in 1 .. 4 |-> b \o <<"-", DigitAlpha[i + 2]>>]
\* lines 88-91: the base, then base-2 .. base-6
Suffixed(b) == <<b>> \o [i \in 1 .. 5 |-> b \o <<"-", DigitAlpha[i + 2]>>]

\* lines 78-99
RECURSIVE SuffixAll(_)
SuffixAll(bases) ==
    IF bases = <<>> THEN <<>> ELSE Suffixed(Head(bases)) \o SuffixAll(Tail(bases))
RECURSIVE ExpandEach(_)
ExpandEach(values_list) ==
    IF values_list = <<>> THEN <<>>
    ELSE SuffixAll(expand_gacha_name_base(Head(values_list)))
         \o ExpandEach(Tail(values_list))
expand_gacha_values(values_list) == Dedupe(ExpandEach(values_list), {})

\* -------------------------------------------------------- template expander
\* _tag_re.findall(template), line 38-41: scan left to right; "[" followed by
\* a maximal non-empty run of [A-Za-z0-9] and then "]" is a marker, and the
\* scan resumes after it.
RECURSIVE AlnumRun(_, _)
AlnumRun(s, i) == IF i <= Len(s) /\ IsAlnum(s[i]) THEN 1 + AlnumRun(s, i + 1) ELSE 0
RECURSIVE TagsFrom(_, _)
TagsFrom(s, i) ==
    IF i > Len(s) THEN <<>>
    ELSE LET run == AlnumRun(s, i + 1)
         IN  IF s[i] = "[" /\ run >= 1 /\ i + 1 + run <= Len(s) /\ s[i + 1 + run] = "]"
             THEN <<SubSeq(s, i + 1, i + run)>> \o TagsFrom(s, i + 2 + run)
             ELSE TagsFrom(s, i + 1)
extract_tags(t) == TagsFrom(t, 1)

\* tag_values.get(t, [])
DictGet(d, k) == IF k \in DOMAIN d THEN d[k] ELSE <<>>

\* lines 481-484: the working list of one tag
WorkingList(t, vals) ==
    IF StrUpper(t) = <<"G">> THEN expand_gacha_values(vals) ELSE vals

\* Variant of BuildLists: no "if not vals: return []".
BuildListsUnchecked(tgs, tv, acc) ==
    [ok |-> TRUE,
     lists |-> [i \in 1 .. Len(tgs) |-> WorkingList(tgs[i], DictGet(tv, tgs[i]))]]
\* lines 476-484: the loop over the tags; ok is FALSE when it hit "return []"
RECURSIVE BuildLists(_, _, _)
BuildLists(tgs, tv, acc) ==
    IF tgs = <<>> THEN [ok |-> TRUE, lists |-> acc]
    ELSE LET vals == DictGet(tv, Head(tgs))
         IN  IF vals = <<>> THEN [ok |-> FALSE, lists |-> <<>>]
             ELSE BuildLists(Tail(tgs), tv, Append(acc, WorkingList(Head(tgs), vals)))

\* itertools.product(*lists): result = [[]]; for each pool in turn,
\* result = [x + [y] for x in result for y in pool].
AppendEach(x, pool) == [b \in 1 .. Len(pool) |-> Append(x, pool[b])]
\* Variant of Extend: [x + [y] for y in pool for x in result], the loops swapped.
RECURSIVE ExtendPoolFirst(_, _)
ExtendPoolFirst(res, pool) ==
    IF pool = <<>> THEN <<>>
    ELSE [a \in 1 .. Len(res) |-> Append(res[a], Head(pool))]
         \o ExtendPoolFirst(res, Tail(pool))
RECURSIVE Extend(_, _)
Extend(res, pool) ==
    IF res = <<>> THEN <<>> ELSE AppendEach(Head(res), pool) \o Extend(Tail(res), pool)
RECURSIVE Product(_)
Product(pools) ==
    IF pools = <<>> THEN << <<>> >>
    ELSE Extend(Product(SubSeq(pools, 1, Len(pools) - 1)), pools[Len(pools)])

\* lines 492-494: u = template; for each tag in order, replace its marker by
\* the quoted value of the combination.
RECURSIVE Substitute(_, _, _, _)
Substitute(u, tgs, combo, i) ==
    IF i > Len(tgs) THEN u
    ELSE Substitute(ReplaceAll(u, <<"[">> \o tgs[i] \o <<"]">>, Quote(combo[i])),
                    tgs, combo, i + 1)

\* lines 473-485: extract the tags, build the working lists; an absent tag, an
\* empty value list or a template without markers returns [] at once.
GenStart ==
    /\ gen_pc = "call"
    /\ LET tgs == extract_tags(template)
           built == BuildLists(tgs, tag_values, <<>>)
       IN  /\ gen_tags' = tgs
           /\ IF tgs = <<>> \/ ~built.ok
              THEN /\ gen_pc' = "returned"
                   /\ gen_lists' = <<>>
              ELSE /\ gen_pc' = "count"
                   /\ gen_lists' = built.lists
    /\ gen_total' = 1
    /\ gen_l' = 1
    /\ UNCHANGED <<template, tag_values, gen_c, gen_urls, gen_err>>
    /\ UNCHANGED <<svars, gvars, cvars, hvars>>

\* Variant of TooMany: >= in place of >.
TooManyAtCeiling(total) == total >= MAX_COMBINATIONS
\* "if total > MAX_COMBINATIONS", line 488
TooMany(total) == total > MAX_COMBINATIONS

\* lines 486-489: one iteration of the count loop
GenCount ==
    /\ gen_pc = "count"
    /\ gen_l <= Len(gen_lists)
    /\ gen_total' = gen_total * Len(gen_lists[gen_l])
    /\ IF TooMany(gen_total')
       THEN /\ gen_pc' = "raised"
            /\ gen_err' = gen_total'
            /\ UNCHANGED gen_l
       ELSE /\ gen_l' = gen_l + 1
            /\ gen_pc' = IF gen_l' > Len(gen_lists) THEN "product" ELSE "count"
            /\ UNCHANGED gen_err
    /\ UNCHANGED <<template, tag_values, gen_tags, gen_lists, gen_c, gen_urls>>
    /\ UNCHANGED <<svars, gvars, cvars, hvars>>

\* lines 491-495: one iteration of the product loop
GenCombo ==
    /\ gen_pc = "product"
    /\ gen_c <= Len(Product(gen_lists))
    /\ gen_urls' = Append(gen_urls,
                          Substitute(template, gen_tags, Product(gen_lists)[gen_c], 1))
    /\ gen_c' = gen_c + 1
    /\ UNCHANGED <<template, tag_values, gen_pc, gen_tags, gen_lists, gen_total,
                   gen_l, gen_err>>
    /\ UNCHANGED <<svars, gvars, cvars, hvars>>

\* line 496: return urls
GenReturn ==
    /\ gen_pc = "product"
    /\ gen_c > Len(Product(gen_lists))
    /\ gen_pc' = "returned"
    /\ UNCHANGED <<template, tag_values, gen_tags, gen_lists, gen_total, gen_l,
                   gen_c, gen_urls, gen_err>>
    /\ UNCHANGED <<svars, gvars, cvars, hvars>>

\* ------------------------------------------------------ inputs of the expander
TagV == <<"V">>
TagG == <<"G">>
TagT == <<"T">>

\* "x[V]/[T]", "x[V]/[G]_[T]", "x/[-].jpg" (no marker), "[T]_[T]" (a repeated
\* marker)
Templates ==
    { <<"x", "[", "V", "]", "/", "[", "T", "]">>,
      <<"x", "[", "V", "]", "/", "[", "G", "]", "_", "[", "T", "]">>,
      <<"x", "/", "[", "-", "]", ".", "j", "p", "g">>,
      <<"[", "T", "]", "_", "[", "T", "]">> }

\* The k-th raw value the caller supplies for a tag: digits for V; for T a
\* value with a "/", a repeated value and a value with a space among them; for
\* G a value without letters and values with letters.
RawValue(t, k) ==
    IF t = TagV THEN <<DigitAlpha[k + 1]>>
    ELSE IF t = TagT
         THEN CASE k = 1 -> <<"7">>
                [] k = 2 -> <<"a", "/", "b">>
                [] k = 3 -> <<"7">>
                [] OTHER -> <<"x", " ", DigitAlpha[k + 1]>>
    ELSE CASE k = 1 -> <<"7">>
           [] k = 2 -> <<"a", "B">>
           [] OTHER -> <<"g", DigitAlpha[k + 1]>>

RawValues(t, n) == [k \in 1 .. n |-> RawValue(t, k)]

TagKeys == {TagV, TagG, TagT}

\* Every dict over a subset of the tags whose lists are the first n raw values
\* of the tag, 0 <= n <= MaxVals.
TagValueSets ==
    UNION { { [t \in K |-> RawValues(t, n[t])] : n \in [K -> 0 .. MaxVals] }
            : K \in SUBSET TagKeys }

InitExpand ==
    /\ template \in Templates
    /\ tag_values \in TagValueSets
    /\ gen_pc = "call"
    /\ gen_tags = <<>>
    /\ gen_lists = <<>>
    /\ gen_total = 1
    /\ gen_l = 1
    /\ gen_c = 1
    /\ gen_urls = <<>>
    /\ gen_err = None

\* The expander before any call, for the behaviours of the probe pool.
IdleExpand ==
    /\ template = <<>>
    /\ tag_values = <<>>
    /\ gen_pc = "idle"
    /\ gen_tags = <<>>
    /\ gen_lists = <<>>
    /\ gen_total = 1
    /\ gen_l = 1
    /\ gen_c = 1
    /\ gen_urls = <<>>
    /\ gen_err = None

\* The probe pool before any call, for the behaviours of the expander.
IdleSearch ==
    /\ InitSearch
    /\ urls = <<>>

\* ------------------------------------------------ expand_gacha_values, called
\* A lower-case letter, an upper-case letter, a separator and a digit.
NameAlphabet == {"a", "B", "_", "7"}

\* The raw names: every non-empty string over NameAlphabet of at most
\* MaxNameLen characters, and names around "token" and "wheel".
ShortNames == UNION {[1 .. k -> NameAlphabet] : k \in 1 .. MaxNameLen}
WheelNames ==
    { <<"t", "o", "k", "e", "n", "w", "h", "e", "e", "l">>,
      <<"T", "o", "k", "e", "n", "w", "h", "e", "e", "l">>,
      <<"t", "o", "k", "e", "n", "_", "w", "h", "e", "e", "l">>,
      <<"T", "O", "K", "E", "N", " ", "W", "H", "E", "E", "L">>,
      <<"w", "h", "e", "e", "l", "-", "t", "o", "k", "e", "n">>,
      <<"t", "o", "k", "e", "n">> }
GachaNames == ShortNames \cup WheelNames

InitGachaCall ==
    /\ gacha_in \in {<<n>> : n \in GachaNames}
    /\ gacha_pc = "call"
    /\ gacha_out = <<>>

\* expand_gacha_values before any call, for the behaviours of the other parts.
IdleGacha ==
    /\ gacha_in = <<>>
    /\ gacha_pc = "idle"
    /\ gacha_out = <<>>

\* lines 78-99: expand_gacha_values(gacha_in) runs and returns uniq
GachaCall ==
    /\ gacha_pc = "call"
    /\ gacha_out' = expand_gacha_values(gacha_in)
    /\ gacha_pc' = "returned"
    /\ UNCHANGED gacha_in
    /\ UNCHANGED <<svars, evars, cvars, hvars>>

\* ------------------------------------------------------------------ check_url
\* How one request can end: with an HTTP status, with the ClientTimeout
\* expiring, or with a transport failure (connection refused, reset, ...).
Outcomes == {"200", "204", "301", "404", "500", "timeout", "failure"}
IsStatus(o) == o \in {"200", "204", "301", "404", "500"}
\* "r.status == 200", lines 108 and 114
Is200(o) == o = "200"

\* Variant of Caught: "except aiohttp.ClientError", which a timeout is not.
CaughtClientErrorOnly(o) == o # "timeout"
\* "except:" of lines 110 and 115: every exception is caught.
Caught(o) == TRUE

InitProbe ==
    /\ c_pc = "call"
    /\ c_head \in Outcomes
    /\ c_get \in Outcomes
    /\ c_reqs = <<>>
    /\ c_ret = <<>>
    /\ c_cancelled = FALSE

\* check_url before any call, for the behaviours of the other parts.
IdleProbe ==
    /\ c_pc = "idle"
    /\ c_head = "200"
    /\ c_get = "200"
    /\ c_reqs = <<>>
    /\ c_ret = <<>>
    /\ c_cancelled = FALSE

\* line 107: session.head(url, timeout=8) is issued and awaited
HeadIssue ==
    /\ c_pc = "call"
    /\ c_reqs' = Append(c_reqs, "HEAD")
    /\ c_pc' = "head"
    /\ UNCHANGED <<c_head, c_get, c_ret, c_cancelled>>
    /\ UNCHANGED <<svars, evars, gvars, hvars>>

\* lines 107-113: the HEAD request ended. Status 200 returns True; any other
\* status leaves the "async with", an exception is caught by "except: pass";
\* in both cases session.get(url, timeout=10) is issued and awaited.
HeadDone ==
    /\ c_pc = "head"
    /\ IF IsStatus(c_head) /\ Is200(c_head)
       THEN /\ c_ret' = <<TRUE>>
            /\ c_pc' = "returned"
            /\ UNCHANGED c_reqs
       ELSE IF IsStatus(c_head) \/ Caught(c_head)
       THEN /\ c_reqs' = Append(c_reqs, "GET")
            /\ c_pc' = "get"
            /\ UNCHANGED c_ret
       ELSE /\ c_pc' = "raised"
            /\ UNCHANGED <<c_reqs, c_ret>>
    /\ UNCHANGED <<c_head, c_get, c_cancelled>>
    /\ UNCHANGED <<svars, evars, gvars, hvars>>

\* lines 113-116: the GET request ended: return r.status == 200, or False on
\* an exception.
GetDone ==
    /\ c_pc = "get"
    /\ IF IsStatus(c_get)
       THEN /\ c_ret' = <<Is200(c_get)>>
            /\ c_pc' = "returned"
       ELSE IF Caught(c_get)
       THEN /\ c_ret' = <<FALSE>>
            /\ c_pc' = "returned"
       ELSE /\ c_pc' = "raised"
            /\ UNCHANGED c_ret
    /\ UNCHANGED <<c_head, c_get, c_reqs, c_cancelled>>
    /\ UNCHANGED <<svars, evars, gvars, hvars>>

\* Lines 196-197 (and 215-217): the coordinator calls cancel() on the worker
\* that awaits the gather of line 130; the gather cancels its children, so
\* CancelledError is raised inside this check_url at the request it awaits,
\* which ends there instead of with its answer.
CancelProbe ==
    /\ c_pc \in {"head", "get"}
    /\ ~c_cancelled
    /\ c_cancelled' = TRUE
    /\ IF c_pc = "head"
       THEN c_head' = "cancelled" /\ UNCHANGED c_get
       ELSE c_get' = "cancelled" /\ UNCHANGED c_head
    /\ UNCHANGED <<c_pc, c_reqs, c_ret>>
    /\ UNCHANGED <<svars, evars, gvars, hvars>>

\* ------------------------------------------------------------ the templates
\* line 28
TEMPLATE_GACHA ==
    <<"h", "t", "t", "p", "s", ":", "/", "/", "d", "l", ".", "d", "i", "r",
      ".", "f", "r", "e", "e", "f", "i", "r", "e", "m", "o", "b", "i", "l",
      "e", ".", "c", "o", "m", "/", "c", "o", "m", "m", "o", "n", "/", "O",
      "B", "[", "V", "]", "/", "C", "S", "H", "/", "g", "a", "c", "h", "a",
      "/", "[", "G", "]", "_", "[", "E", "]", "x", "x", "x", "_", "[", "T",
      "]", "_", "T", "a", "b", "I", "D", "_", "i", "n", "d", ".", "j", "p",
      "g">>
\* line 29
TEMPLATE_BANNER_SPLASH ==
    <<"h", "t", "t", "p", "s", ":", "/", "/", "d", "l", ".", "d", "i", "r",
      ".", "f", "r", "e", "e", "f", "i", "r", "e", "m", "o", "b", "i", "l",
      "e", ".", "c", "o", "m", "/", "c", "o", "m", "m", "o", "n", "/", "O",
      "B", "[", "V", "]", "/", "I", "D", "/", "[", "T", "]", "_", "[", "E",
      "]", "/", "s", "p", "l", "a", "s", "h", ".", "j", "p", "g">>
\* line 30
TEMPLATE_BANNER_OVERVIEW ==
    <<"h", "t", "t", "p", "s", ":", "/", "/", "d", "l", ".", "d", "i", "r",
      ".", "f", "r", "e", "e", "f", "i", "r", "e", "m", "o", "b", "i", "l",
      "e", ".", "c", "o", "m", "/", "c", "o", "m", "m", "o", "n", "/", "O",
      "B", "[", "V", "]", "/", "I", "D", "/", "[", "T", "]", "_", "[", "E",
      "]", "/", "o", "v", "e", "r", "v", "i", "e", "w", ".", "j", "p", "g">>
\* line 33
OVERVIEW_VARIANTS ==
    << <<"o", "v", "e", "r", "v", "i", "e", "w">>,
       <<"v", "i", "e", "w", "o", "v", "e", "r">>,
       <<"o", "v", "e", "r", "i", "v", "e", "w">>,
       <<"r", "i", "v", "e", "r", "v", "o", "w">>,
       <<"v", "o", "w", "o", "v", "e", "r">> >>
\* the marker "BANNER" of line 329
BANNER == <<"B", "A", "N", "N", "E", "R">>

\* ----------------------------------------------------------- text of a message
\* str.strip(), for the blank " "
RECURSIVE LStrip(_)
LStrip(s) == IF s # <<>> /\ Head(s) = " " THEN LStrip(Tail(s)) ELSE s
RECURSIVE RStrip(_)
RStrip(s) ==
    IF s # <<>> /\ s[Len(s)] = " " THEN RStrip(SubSeq(s, 1, Len(s) - 1)) ELSE s
Strip(s) == RStrip(LStrip(s))

\* text.split(','): the pieces between the commas, empty pieces included
RECURSIVE SplitCommaFrom(_, _, _)
SplitCommaFrom(s, i, cur) ==
    IF i > Len(s) THEN <<cur>>
    ELSE IF s[i] = "," THEN <<cur>> \o SplitCommaFrom(s, i + 1, <<>>)
    ELSE SplitCommaFrom(s, i + 1, Append(cur, s[i]))
SplitComma(s) == SplitCommaFrom(s, 1, <<>>)

\* line 382: [v.strip() for v in text.split(',') if v.strip()]
NonEmpty(v) == v # <<>>
ParseValues(text) ==
    LET pieces == SplitComma(text)
    IN  SelectSeq([k \in 1 .. Len(pieces) |-> Strip(pieces[k])], NonEmpty)

\* line 43-44: every tag is a non-empty run of [A-Za-z0-9]
valid_tags(tags) ==
    \A k \in 1 .. Len(tags) :
        tags[k] # <<>> /\ \A i \in 1 .. Len(tags[k]) : IsAlnum(tags[k][i])

\* context.user_data['values'][tag] = vals
DictPut(d, k, v) == [x \in (DOMAIN d) \cup {k} |-> IF x = k THEN v ELSE d[x]]

\* The texts a user sends for a tag: a blank text, a text of commas and
\* blanks only, and the first n raw values of the tag written "v1, v2, ...".
RECURSIVE JoinComma(_)
JoinComma(vs) ==
    IF Len(vs) = 1 THEN vs[1] ELSE vs[1] \o <<",", " ">> \o JoinComma(Tail(vs))
ValueTexts(t) ==
    {<<" ">>, <<",", " ", ",">>} \cup {JoinComma(RawValues(t, n)) : n \in 1 .. MaxVals}
\* The texts a user sends as a custom template.
TemplateTexts == Templates \cup {<<" ">>}

\* the three buttons of cmdlink_handler, lines 274-276
Options == {"link_gacha", "link_banner", "link_custom"}

\* ---------------------------------------------------------- handle_tag_input
InitHandler ==
    /\ h_pc = "start"
    /\ h_expect = FALSE
    /\ h_marker = <<>>
    /\ h_tags = <<>>
    /\ h_idx = 0
    /\ h_values = <<>>
    /\ h_splash = <<>>
    /\ h_urls = <<>>
    /\ h_reply = <<"none">>

\* No conversation, for the behaviours of the other parts.
IdleHandler ==
    /\ h_pc = "off"
    /\ h_expect = FALSE
    /\ h_marker = <<>>
    /\ h_tags = <<>>
    /\ h_idx = 0
    /\ h_values = <<>>
    /\ h_splash = <<>>
    /\ h_urls = <<>>
    /\ h_reply = <<"none">>

\* find_first_live_url not yet called by the handler.
NoCallSearch ==
    /\ urls = <<>>
    /\ live = {}
    /\ cpc = "nocall"
    /\ chunks = [w \in Workers |-> <<>>]
    /\ tasks = {}
    /\ pending = {}
    /\ found = None
    /\ aborting = FALSE
    /\ wpc = [w \in Workers |-> "none"]
    /\ wi = [w \in Workers |-> 0]
    /\ inflight = [w \in Workers |-> {}]
    /\ results = [w \in Workers |-> <<>>]
    /\ wret = [w \in Workers |-> None]
    /\ cancelReq = [w \in Workers |-> FALSE]
    /\ progress = 0
    /\ found_event = FALSE
    /\ probed = <<>>
    /\ sink = <<"none">>
    /\ session = "none"
    /\ reported = {}

\* option_button_callback, lines 300-341: a button starts the conversation,
\* or (handler of line 525) restarts it while values are being asked.
OptionButton(opt) ==
    /\ h_pc \in {"start", "asking"}
    /\ h_pc' = "asking"
    /\ h_idx' = 0
    /\ h_values' = <<>>
    /\ CASE opt = "link_gacha" ->
              /\ h_expect' = FALSE
              /\ h_marker' = TEMPLATE_GACHA
              /\ h_tags' = extract_tags(TEMPLATE_GACHA)
              /\ h_reply' = <<"ask", h_tags'[1]>>
         [] opt = "link_banner" ->
              /\ h_expect' = FALSE
              /\ h_marker' = BANNER
              /\ h_tags' = extract_tags(TEMPLATE_BANNER_OVERVIEW)
              /\ h_reply' = <<"ask", h_tags'[1]>>
         [] OTHER ->
              /\ h_expect' = TRUE
              /\ h_marker' = <<>>
              /\ h_tags' = <<>>
              /\ h_reply' = <<"send_template">>
    /\ UNCHANGED <<h_splash, h_urls>>
    /\ UNCHANGED <<svars, evars, gvars, cvars>>

\* handle_tag_input, lines 343-394: a text message while the conversation is
\* in ASKING_TAGS. It is the custom template, or the values of the current
\* tag; with the values of the last tag the handler goes on to build the URLs.
HandleText(text) ==
    /\ h_pc = "asking"
    /\ LET t == Strip(text)
       IN  IF t = <<>>
           THEN /\ h_reply' = <<"no_text">>
                /\ UNCHANGED <<h_pc, h_expect, h_marker, h_tags, h_idx, h_values>>
           ELSE IF h_expect
           THEN LET tags == extract_tags(t)
                IN  IF tags = <<>> \/ ~valid_tags(tags)
                    THEN /\ h_reply' = <<"bad_template">>
                         /\ UNCHANGED <<h_pc, h_expect, h_marker, h_tags, h_idx,
                                        h_values>>
                    ELSE /\ h_expect' = FALSE
                         /\ h_marker' = t
                         /\ h_tags' = tags
                         /\ h_idx' = 0
                         /\ h_values' = <<>>
                         /\ h_reply' = <<"ask", tags[1]>>
                         /\ UNCHANGED h_pc
           ELSE IF h_idx >= Len(h_tags)
           THEN /\ h_reply' = <<"index_error">>
                /\ h_pc' = "end_index"
                /\ UNCHANGED <<h_expect, h_marker, h_tags, h_idx, h_values>>
           ELSE LET vals == ParseValues(t)
                IN  IF vals = <<>>
                    THEN /\ h_reply' = <<"no_values">>
                         /\ UNCHANGED <<h_pc, h_expect, h_marker, h_tags, h_idx,
                                        h_values>>
                    ELSE /\ h_values' = DictPut(h_values, h_tags[h_idx + 1], vals)
                         /\ IF h_idx + 1 < Len(h_tags)
                            THEN /\ h_idx' = h_idx + 1
                                 /\ h_reply' = <<"ask", h_tags[h_idx + 2]>>
                                 /\ UNCHANGED h_pc
                            ELSE /\ h_pc' = "build"
                                 /\ UNCHANGED <<h_idx, h_reply>>
                         /\ UNCHANGED <<h_expect, h_marker, h_tags>>
    /\ UNCHANGED <<h_splash, h_urls>>
    /\ UNCHANGED <<svars, evars, gvars, cvars>>

\* The call generate_urls_from_template(t, tv), lines 460-473: the arguments
\* are bound and the locals are fresh.
GenEnter(t, tv) ==
    /\ template' = t
    /\ tag_values' = tv
    /\ gen_pc' = "call"
    /\ gen_tags' = <<>>
    /\ gen_lists' = <<>>
    /\ gen_total' = 1
    /\ gen_l' = 1
    /\ gen_c' = 1
    /\ gen_urls' = <<>>
    /\ gen_err' = None

\* lines 396-414, 424-427: all tags collected; generate from the splash
\* template in banner mode, from the stored template otherwise.
BuildStart ==
    /\ h_pc = "build"
    /\ IF h_marker = BANNER
       THEN GenEnter(TEMPLATE_BANNER_SPLASH, h_values) /\ h_pc' = "splash"
       ELSE GenEnter(h_marker, h_values) /\ h_pc' = "plain"
    /\ UNCHANGED <<h_expect, h_marker, h_tags, h_idx, h_values, h_splash, h_urls,
                   h_reply>>
    /\ UNCHANGED <<svars, gvars, cvars>>

\* lines 414-418: splash_urls is there; generate from the overview template.
SplashReturned ==
    /\ h_pc = "splash"
    /\ gen_pc = "returned"
    /\ h_splash' = gen_urls
    /\ GenEnter(TEMPLATE_BANNER_OVERVIEW, h_values)
    /\ h_pc' = "overview"
    /\ UNCHANGED <<h_expect, h_marker, h_tags, h_idx, h_values, h_urls, h_reply>>
    /\ UNCHANGED <<svars, gvars, cvars>>

\* Variant of Variants: the spelling "overview" itself is left out.
VariantsWithoutFirst(base) ==
    [v \in 1 .. (Len(OVERVIEW_VARIANTS) - 1) |->
        ReplaceAll(base, <<"/">> \o OVERVIEW_VARIANTS[1] \o <<".", "j", "p", "g">>,
                         <<"/">> \o OVERVIEW_VARIANTS[v + 1] \o <<".", "j", "p", "g">>)]
\* lines 420-421: base.replace("/overview.jpg", f"/{v}.jpg") for every v of
\* OVERVIEW_VARIANTS
Variants(base) ==
    [v \in 1 .. Len(OVERVIEW_VARIANTS) |->
        ReplaceAll(base, <<"/", "o", "v", "e", "r", "v", "i", "e", "w", ".", "j", "p", "g">>,
                         <<"/">> \o OVERVIEW_VARIANTS[v] \o <<".", "j", "p", "g">>)]
\* lines 417-421: ov_urls
RECURSIVE OverviewUrls(_)
OverviewUrls(bases) ==
    IF bases = <<>> THEN <<>>
    ELSE Variants(Head(bases)) \o OverviewUrls(Tail(bases))

\* lines 418-446: urls is there (splash_urls + ov_urls in banner mode). An
\* empty list ends the conversation; otherwise the total is announced and the
\* progress message is created.
UrlsBuilt ==
    /\ h_pc \in {"overview", "plain"}
    /\ gen_pc = "returned"
    /\ h_urls' = IF h_pc = "overview" THEN h_splash \o OverviewUrls(gen_urls)
                                      ELSE gen_urls
    /\ IF h_urls' = <<>>
       THEN /\ h_reply' = <<"nothing">>
            /\ h_pc' = "end_empty"
       ELSE /\ h_reply' = <<"total", Len(h_urls')>>
            /\ h_pc' = "ready"
    /\ UNCHANGED <<h_expect, h_marker, h_tags, h_idx, h_values, h_splash>>
    /\ UNCHANGED <<svars, evars, gvars, cvars>>

\* lines 429-431: generate raised ValueError; its text is sent and the
\* conversation ends.
GenerationFailed ==
    /\ h_pc \in {"splash", "overview", "plain"}
    /\ gen_pc = "raised"
    /\ h_reply' = <<"error", gen_err>>
    /\ h_pc' = "end_error"
    /\ UNCHANGED <<h_expect, h_marker, h_tags, h_idx, h_values, h_splash, h_urls>>
    /\ UNCHANGED <<svars, evars, gvars, cvars>>

\* lines 446-448: find_first_live_url(urls, progress_msg) is called, for lists
\* of at most MaxN candidates. Which of the URLs answer 200 is the servers'
\* part.
SearchCall ==
    /\ h_pc = "ready"
    /\ Len(h_urls) <= MaxN
    /\ urls' = h_urls
    /\ live' \in {l \in SUBSET Range(h_urls) : Cardinality(l) <= MaxLive}
    /\ probed' = [u \in Range(h_urls) |-> 0]
    /\ sink' = <<"start">>
    /\ cpc' = "idle"
    /\ h_pc' = "search"
    /\ UNCHANGED <<chunks, tasks, pending, found, aborting, wpc, wi, inflight,
                   results, wret, cancelReq, progress, found_event, session,
                   reported>>
    /\ UNCHANGED <<h_expect, h_marker, h_tags, h_idx, h_values, h_splash, h_urls,
                   h_reply>>
    /\ UNCHANGED <<evars, gvars, cvars>>

\* Variant of NotFound: the result is never taken as "not found".
NotFoundNever(f) == FALSE
\* "if not found", line 450
NotFound(f) == f = None

\* lines 448-455: find_first_live_url returned; without a URL the final text
\* is written to the progress message (edit_text may fail).
SearchReturned ==
    /\ h_pc = "search"
    /\ cpc = "returned"
    /\ IF NotFound(found)
       THEN /\ \E ok \in BOOLEAN : sink' = IF ok THEN <<"notfound">> ELSE sink
            /\ h_pc' = "end_notfound"
       ELSE /\ h_pc' = "end_found"
            /\ UNCHANGED sink
    /\ UNCHANGED <<urls, live, cpc, chunks, tasks, pending, found, aborting, wpc,
                   wi, inflight, results, wret, cancelReq, progress, found_event,
                   probed, session, reported>>
    /\ UNCHANGED <<h_expect, h_marker, h_tags, h_idx, h_values, h_splash, h_urls,
                   h_reply>>
    /\ UNCHANGED <<evars, gvars, cvars>>

\* the texts the user can send at this point of the conversation
Texts ==
    IF h_expect THEN TemplateTexts
    ELSE IF h_idx < Len(h_tags) THEN ValueTexts(h_tags[h_idx + 1])
    ELSE {<<"7">>}

HandlerStep ==
    \/ \E opt \in Options : OptionButton(opt)
    \/ \E text \in Texts : HandleText(text)
    \/ BuildStart
    \/ SplashReturned
    \/ UrlsBuilt
    \/ GenerationFailed
    \/ SearchCall
    \/ SearchReturned

WorkerStep(w) ==
    \/ LoopHead(w)
    \/ \E k \in 1 .. BATCH_SIZE : ProbeDone(w, k)
    \/ GatherDone(w)
    \/ ProgressDone(w)
    \/ ReportDone(w)
    \/ CancelDeliver(w)

CoordinatorStep ==
    \/ Call
    \/ WaitWake
    \/ CancelWaitDone
    \/ ExhaustDone
    \/ FinalDone

vars == <<svars, evars, gvars, cvars, hvars>>

Next ==
    \/ CoordinatorStep
    \/ Abort
    \/ \E w \in Workers : WorkerStep(w)

Init == InitSearch /\ IdleExpand /\ IdleGacha /\ IdleProbe /\ IdleHandler

Spec == Init /\ [][Next]_vars

\* A run that no caller aborts, with the event loop running every coroutine
\* that can run: probes end (check_url's timeouts), sleeps elapse, edit_text
\* returns or raises.
NextRun ==
    \/ CoordinatorStep
    \/ \E w \in Workers : WorkerStep(w)

FairSpec ==
    /\ Init
    /\ [][NextRun]_vars
    /\ WF_vars(CoordinatorStep)
    /\ \A w \in Workers : WF_vars(WorkerStep(w))

NextExpand ==
    \/ GenStart
    \/ GenCount
    \/ GenCombo
    \/ GenReturn

InitGen == IdleSearch /\ InitExpand /\ IdleGacha /\ IdleProbe /\ IdleHandler

SpecExpand == InitGen /\ [][NextExpand]_vars

\* expand_gacha_values called on one raw name
NextGacha == GachaCall

InitGacha == IdleSearch /\ IdleExpand /\ InitGachaCall /\ IdleProbe /\ IdleHandler

SpecGacha == InitGacha /\ [][NextGacha]_vars

\* check_url called on one URL
NextProbe ==
    \/ HeadIssue
    \/ HeadDone
    \/ GetDone

InitCheck == IdleSearch /\ IdleExpand /\ IdleGacha /\ InitProbe /\ IdleHandler

SpecProbe == InitCheck /\ [][NextProbe]_vars

\* check_url called on one URL by a worker that the coordinator may cancel
NextCancel ==
    \/ NextProbe
    \/ CancelProbe

SpecCancel == InitCheck /\ [][NextCancel]_vars

\* One conversation: the buttons, the texts, the generation and the search,
\* with nobody cancelling the handler.
NextRequest ==
    \/ HandlerStep
    \/ NextExpand
    \/ CoordinatorStep
    \/ \E w \in Workers : WorkerStep(w)

InitRequest == NoCallSearch /\ IdleExpand /\ IdleGacha /\ IdleProbe /\ InitHandler

SpecRequest == InitRequest /\ [][NextRequest]_vars

\* =================================================================== claims
\* Vocabulary of the claims about the probe pool.
N == Len(urls)
CallEnded == cpc \in {"returned", "aborted"}
\* the workers that recorded a found URL (set found_event, reported it)
Finders == {w \in Workers : wpc[w] = "report" \/ (wpc[w] = "done" /\ wret[w] # None)}

\* C1: with exactly one Live URL in a non-empty list, find_first_live_url
\* eventually returns, and what it returns is that URL, wherever it stands in
\* the list and however the workers interleave.
C1_SingleLiveIsReturned ==
    (N >= 1 /\ Cardinality(live) = 1)
        => /\ <>(cpc = "returned")
           /\ [](cpc = "returned" => found \in live)

\* C1 witness: the call returned the only Live URL, which stood last in a list
\* long enough for its worker to need a second batch.
C1_Witness ==
    /\ cpc = "returned"
    /\ N > WORKERS * BATCH_SIZE
    /\ live = {urls[N]}
    /\ found = urls[N]

\* C2: when no URL is Live, find_first_live_url returns None, and at the
\* return check_url has been called exactly once for every list position (and
\* for nothing else).
C2_ExhaustedProbesEachOnce ==
    (cpc = "returned" /\ live = {})
        => /\ found = None
           /\ \A k \in 1 .. N : probed[urls[k]] = 1
           /\ \A u \in Range(UrlPool) \ Range(urls) : probed[u] = 0

\* C2 witness: a list without Live URL, long enough for a second batch, has
\* been searched to the end.
C2_Witness ==
    /\ cpc = "returned"
    /\ live = {}
    /\ N > WORKERS * BATCH_SIZE
    /\ progress = N

\* C3: when find_first_live_url has returned or propagated the CancelledError
\* of an aborted call, every worker task it created is done and none of its
\* probes is still in flight.
C3_NoWorkerOutlivesCall ==
    CallEnded => \A w \in tasks : Done(w) /\ inflight[w] = {}

\* C3 witness: the call returned a found URL after cancelling a sibling worker.
C3_Witness ==
    /\ cpc = "returned"
    /\ found # None
    /\ \E w \in tasks : wpc[w] = "cancelled"

\* C4: no check_url is started while found_event is set, and a worker never
\* has more than one batch (BATCH_SIZE probes) in flight.
C4_NoProbeAfterSignal ==
    /\ [](\A w \in Workers : Cardinality(inflight[w]) <= BATCH_SIZE)
    /\ [][found_event => probed' = probed]_vars

\* C4 witness: a worker saw found_event at the top of its loop and returned
\* None with candidates of its partition left unprobed.
C4_Witness ==
    /\ found_event
    /\ \E w \in tasks : /\ wpc[w] = "done"
                        /\ wret[w] = None
                        /\ wi[w] < Len(chunks[w])
                        /\ wi[w] > 0

\* C5: within one call at most one worker records a found URL (sets
\* found_event, sends the success report, returns the URL).
C5_FoundSetOnce == Cardinality(Finders) <= 1

\* C6: worker w gets the candidates at the 0-based indexes w, w + WORKERS,
\* w + 2*WORKERS, ... in that order; every index belongs to exactly one worker;
\* one task is created per non-empty partition, min(N, WORKERS) in all.
C6_RoundRobin ==
    (cpc # "idle" /\ N > 0)
        => /\ \A w \in Workers : \A k \in 1 .. Len(chunks[w]) :
                 /\ w + (k - 1) * WORKERS < N
                 /\ chunks[w][k] = urls[w + (k - 1) * WORKERS + 1]
           /\ \A i \in 0 .. (N - 1) :
                 /\ Len(chunks[i % WORKERS]) >= (i \div WORKERS) + 1
                 /\ chunks[i % WORKERS][(i \div WORKERS) + 1] = urls[i + 1]
                 /\ \A w \in Workers \ {i % WORKERS} : urls[i + 1] \notin Range(chunks[w])
           /\ tasks = {w \in Workers : chunks[w] # <<>>}
           /\ Cardinality(tasks) = Min(N, WORKERS)

\* C6 witness: a list longer than twice the pool has been partitioned.
C6_Witness ==
    /\ cpc = "wait"
    /\ N > 2 * WORKERS
    /\ Len(chunks[0]) > Len(chunks[WORKERS - 1])

\* Vocabulary of the claims about the expander.
ReqTags == extract_tags(template)
WorkingLen(t) == Len(WorkingList(t, DictGet(tag_values, t)))
Lens == [j \in 1 .. Len(ReqTags) |-> WorkingLen(ReqTags[j])]
RECURSIVE ProductOf(_)
ProductOf(ns) == IF ns = <<>> THEN 1 ELSE Head(ns) * ProductOf(Tail(ns))
FullProduct == ProductOf(Lens)
\* every marker of the template has a non-empty value list
Complete == ReqTags # <<>> /\ \A j \in 1 .. Len(ReqTags) : Lens[j] > 0
DistinctMarkers ==
    \A i, j \in 1 .. Len(ReqTags) : i # j => ReqTags[i] # ReqTags[j]

\* C7: for distinct markers with non-empty working lists, the call returns
\* exactly the product of the lengths many URLs when the product is at most
\* MAX_COMBINATIONS, raises exactly when it is larger, and has built no URL
\* before the count loop is through.
C7_ProductOrTooMany ==
    (Complete /\ DistinctMarkers)
        => /\ gen_pc = "returned"
                => FullProduct <= MAX_COMBINATIONS /\ Len(gen_urls) = FullProduct
           /\ gen_pc = "raised"
                => FullProduct > MAX_COMBINATIONS /\ gen_urls = <<>>
           /\ gen_pc = "product" => FullProduct <= MAX_COMBINATIONS
           /\ gen_pc \in {"call", "count"} => gen_urls = <<>>

\* C7 witness: a template of several distinct markers returned exactly
\* MAX_COMBINATIONS URLs.
C7_Witness ==
    /\ Complete /\ DistinctMarkers
    /\ Len(ReqTags) >= 2
    /\ gen_pc = "returned"
    /\ Len(gen_urls) = MAX_COMBINATIONS

\* C8: the count carried by the too-many-combinations error is the product of
\* the lengths of all the working lists.
C8_ErrorCarriesFullProduct ==
    gen_pc = "raised" => gen_err = FullProduct

\* C9: a template without markers, or with a marker whose tag is absent from
\* tag_values or has an empty list, returns the empty list and raises nothing.
C9_IncompleteIsEmpty ==
    ~Complete
        => /\ gen_pc \in {"call", "returned"}
           /\ gen_urls = <<>>
           /\ gen_err = None

\* the product of the lengths of the non-empty working lists
PresentProduct == ProductOf([j \in 1 .. Len(ReqTags) |->
                               IF Lens[j] = 0 THEN 1 ELSE Lens[j]])

\* C9 witness: the call returned [] for a template whose last marker has no
\* values while the lists of its other markers alone exceed the ceiling.
C9_Witness ==
    /\ gen_pc = "returned"
    /\ Len(ReqTags) >= 2
    /\ Lens[Len(ReqTags)] = 0
    /\ PresentProduct > MAX_COMBINATIONS
    /\ gen_urls = <<>>

\* the stride of marker j in the output: the product of the lengths after j
Stride(j) == ProductOf(SubSeq(Lens, j + 1, Len(Lens)))
\* the combination at 0-based output position p, last marker varying fastest
ComboAt(p) ==
    [j \in 1 .. Len(ReqTags) |->
        WorkingList(ReqTags[j], DictGet(tag_values, ReqTags[j]))
            [((p \div Stride(j)) % Lens[j]) + 1]]

\* C10: the output is a function of the template and the tag values alone:
\* the URL at 0-based position p is the template filled with the p-th
\* combination in cartesian-product order, the last marker varying fastest
\* and the first slowest.
C10_ProductOrder ==
    gen_pc \in {"product", "returned"}
        => \A p \in 0 .. (Len(gen_urls) - 1) :
              gen_urls[p + 1] = Substitute(template, ReqTags, ComboAt(p), 1)

\* C10 witness: a list was returned for several markers with several values
\* each.
C10_Witness ==
    /\ gen_pc = "returned"
    /\ DistinctMarkers
    /\ Len(ReqTags) >= 2
    /\ \A j \in 1 .. Len(ReqTags) : Lens[j] >= 2
    /\ Len(gen_urls) = FullProduct

\* C15: find_first_live_url called with an empty list returns None at once and
\* does nothing: no session is opened, no task is created, check_url is never
\* called, the counter stays 0 and nothing is written to progress_msg.
C15_EmptyListNoWork ==
    N = 0 => /\ cpc \in {"idle", "returned"}
             /\ found = None
             /\ session = "none"
             /\ tasks = {}
             /\ \A w \in Workers : wpc[w] = "none" /\ inflight[w] = {}
             /\ \A u \in Range(UrlPool) : probed[u] = 0
             /\ progress = 0
             /\ sink = <<"start">>

\* C15 witness: the call with the empty list has returned.
C15_Witness ==
    /\ N = 0
    /\ cpc = "returned"
    /\ found = None

\* the step in which worker w leaves its gather with the results of a batch
BatchFinished(w) == wpc[w] = "gather" /\ wpc'[w] = "progress"

\* C17: the checked-count is 0 before the call, stays within 0 .. N, never
\* decreases, changes only when a worker finishes a batch and then grows by
\* the length of that batch, equals N when the call returns None, and every
\* progress text written carries a count c with 0 < c <= total = N.
C17_CheckedCount ==
    /\ [](/\ progress \in 0 .. N
          /\ cpc = "idle" => progress = 0
          /\ (cpc = "returned" /\ found = None) => progress = N
          /\ sink[1] = "progress"
                => (0 < sink[2] /\ sink[2] <= sink[3] /\ sink[3] = N))
    /\ [][/\ progress' >= progress
          /\ \A w \in Workers :
                BatchFinished(w) => progress' = progress + Len(Batch(w))
          /\ progress' # progress => \E w \in Workers : BatchFinished(w)]_vars

\* C17 witness: an exhausted search over a list whose last batch is shorter
\* than BATCH_SIZE, the last progress text carrying N of N.
C17_Witness ==
    /\ cpc = "returned"
    /\ found = None
    /\ N > WORKERS * BATCH_SIZE
    /\ N % BATCH_SIZE # 0
    /\ progress = N
    /\ sink = <<"progress", N, N>>

\* C18: whether edit_text returns or raises, the worker goes on in the same
\* way. A worker that finishes a batch always reaches the scan with the counter
\* advanced; a worker that scans a hit always sets found_event, and returns
\* that URL unless it is cancelled; a worker ends with None only at the top of
\* its loop (partition exhausted or found_event set); and a step that leaves
\* the message text alone differs in nothing else from one that writes it.
\* With every report of a run failed the call still returns None having
\* probed everything once, or returns a Live URL.
C18_SinkFailureChangesNothing ==
    /\ [](/\ \A w \in tasks :
                (wpc[w] = "done" /\ wret[w] = None)
                    => (wi[w] >= Len(chunks[w]) \/ found_event)
          /\ (cpc = "returned" /\ N > 0 /\ sink = <<"start">>)
                => IF live = {}
                   THEN /\ found = None
                        /\ progress = N
                        /\ \A k \in 1 .. N : probed[urls[k]] = 1
                   ELSE found \in live)
    /\ [][\A w \in Workers :
            /\ (wpc[w] = "gather" /\ wpc'[w] \notin {"gather", "cancelled"})
                  => /\ wpc'[w] = "progress"
                     /\ progress' = progress + Len(Batch(w))
            /\ (wpc[w] = "progress" /\ wpc'[w] \notin {"progress", "cancelled"})
                  => IF FirstOk(results[w], 1) # 0
                     THEN wpc'[w] = "report" /\ found_event'
                     ELSE wpc'[w] = "sleep" /\ found_event' = found_event
            /\ (wpc[w] = "report" /\ wpc'[w] \notin {"report", "cancelled"})
                  => /\ wpc'[w] = "done"
                     /\ wret'[w] = Batch(w)[FirstOk(results[w], 1)]]_vars

\* C18 witness: every edit_text of the call raised (the message still shows
\* its first text), and the call returned a URL found in a second batch.
C18_Witness ==
    /\ cpc = "returned"
    /\ sink = <<"start">>
    /\ found \in live
    /\ progress > WORKERS * BATCH_SIZE

\* C19: a worker that scanned a batch without hit sleeps next; it starts a
\* batch, and it returns None, only out of a sleep or as its very first step.
C19_PauseAfterEveryMiss ==
    [][\A w \in Workers :
         /\ (/\ wpc[w] = "progress"
             /\ wpc'[w] \notin {"progress", "cancelled"}
             /\ FirstOk(results[w], 1) = 0) => wpc'[w] = "sleep"
         /\ (wpc'[w] = "gather" /\ wpc[w] # "gather")
               => (wpc[w] = "sleep" \/ (wpc[w] = "start" /\ wi[w] = 0))
         /\ (wpc'[w] = "done" /\ wpc[w] # "done" /\ wret'[w] = None)
               => (wpc[w] = "sleep" \/ (wpc[w] = "start" /\ wi[w] = 0))]_vars

\* C19 witness: a worker sleeps after the last batch of a partition of several
\* batches.
C19_Witness ==
    \E w \in tasks : /\ wpc[w] = "sleep"
                     /\ wi[w] >= Len(chunks[w])
                     /\ wi[w] > BATCH_SIZE

\* C20: a URL returned by find_first_live_url is a candidate of the list that
\* is Live and was probed; None is returned only when no probed candidate is
\* Live.
C20_ResultIsLiveCandidate ==
    cpc = "returned"
        => /\ found # None
                => /\ found \in Range(urls)
                   /\ found \in live
                   /\ probed[found] >= 1
           /\ found = None
                => \A u \in Range(urls) : probed[u] >= 1 => u \notin live

\* C20 witness: two candidates are Live and both were probed; one of them was
\* returned and the worker probing the other was cancelled.
C20_Witness ==
    /\ cpc = "returned"
    /\ Cardinality(live) = 2
    /\ found \in live
    /\ \A u \in live : probed[u] = 1
    /\ \E w \in tasks : wpc[w] = "cancelled"

\* Vocabulary of the claims about the conversation.
\* find_first_live_url was not called: nothing of a search exists.
NoSearch ==
    /\ cpc = "nocall"
    /\ session = "none"
    /\ tasks = {}
    /\ probed = <<>>
    /\ progress = 0
    /\ sink = <<"none">>
\* the URLs were built (and, from "search" on, handed to the search)
UrlsThere == h_pc \in {"ready", "search", "end_notfound", "end_found"}
OverviewTail == <<"/", "o", "v", "e", "r", "v", "i", "e", "w", ".", "j", "p", "g">>
\* base with its trailing "/overview.jpg" respelled as the v-th variant
Spelled(base, v) ==
    SubSeq(base, 1, Len(base) - Len(OverviewTail))
        \o <<"/">> \o OVERVIEW_VARIANTS[v] \o <<".", "j", "p", "g">>

\* C11: in banner mode, with P the product of the numbers of values of the
\* shared tags: generation fails, and no search is started, exactly when P
\* exceeds MAX_COMBINATIONS; otherwise urls has 6 * P entries, the P splash
\* URLs in product order followed, for each overview URL in product order, by
\* its five spellings in the order of OVERVIEW_VARIANTS. The ceiling is not
\* applied to the 6 * P entries.
C11_BannerList ==
    h_marker = BANNER
        => /\ h_pc = "end_error"
                => /\ FullProduct > MAX_COMBINATIONS
                   /\ h_urls = <<>>
                   /\ NoSearch
           /\ h_pc # "end_empty"
           /\ UrlsThere
                => /\ FullProduct <= MAX_COMBINATIONS
                   /\ Len(h_urls) = 6 * FullProduct
           /\ h_pc = "ready"
                => \A tgs \in {ReqTags} : \A p \in 0 .. (FullProduct - 1) :
                     \A c \in {ComboAt(p)} :
                        /\ h_urls[p + 1] =
                             Substitute(TEMPLATE_BANNER_SPLASH, tgs, c, 1)
                        /\ \A b \in {Substitute(TEMPLATE_BANNER_OVERVIEW, tgs, c, 1)} :
                             \A v \in 1 .. 5 :
                                h_urls[FullProduct + 5 * p + v] = Spelled(b, v)

\* C11 witness: a banner request of several combinations produced a list
\* longer than MAX_COMBINATIONS.
C11_Witness ==
    /\ h_marker = BANNER
    /\ h_pc = "ready"
    /\ FullProduct >= 3
    /\ Len(h_urls) = 6 * FullProduct
    /\ Len(h_urls) > MAX_COMBINATIONS

\* Vocabulary of the claims about expand_gacha_values.
RawName == gacha_in[1]
TokenWheel == <<"T", "o", "k", "e", "n", "W", "h", "e", "e", "l">>
HasTokenAndWheel(name) ==
    /\ IsSubstr(<<"t", "o", "k", "e", "n">>, StrLower(name))
    /\ IsSubstr(<<"w", "h", "e", "e", "l">>, StrLower(name))
\* b, b-2, ..., b-6
NumberedForms(b) == {b} \cup {b \o <<"-", d>> : d \in {"2", "3", "4", "5", "6"}}
\* the original, its title-case and its lower-case, each kept where it differs
\* from the ones before it
DistinctCasings(name) ==
    <<name>>
      \o (IF StrTitle(name) # name THEN <<StrTitle(name)>> ELSE <<>>)
      \o (IF StrLower(name) \notin {name, StrTitle(name)}
          THEN <<StrLower(name)>> ELSE <<>>)
\* the suffix at place r of a group of six: none, then -2 .. -6
SuffixAt(r) == IF r = 0 THEN <<>> ELSE <<"-", DigitAlpha[r + 2]>>

\* C12: for the raw value "tokenwheel" the list returned holds TokenWheel,
\* TokenWheel-2 .. TokenWheel-6 and the numbered forms of the default casings.
C12_TokenWheelIncluded ==
    (gacha_pc = "returned"
       /\ RawName = <<"t", "o", "k", "e", "n", "w", "h", "e", "e", "l">>)
        => /\ NumberedForms(TokenWheel) \subseteq Range(gacha_out)
           /\ \A k \in 1 .. Len(DistinctCasings(RawName)) :
                NumberedForms(DistinctCasings(RawName)[k]) \subseteq Range(gacha_out)

\* C13: for one raw value whose lower-case text does not hold both "token"
\* and "wheel", the list returned is, for each distinct casing in the order
\* original, title, lower: the casing, then casing-2 .. casing-6; it has no
\* entry twice, 6 entries per distinct casing, 18 when the three differ.
C13_SixFormsPerCasing ==
    (gacha_pc = "returned" /\ ~HasTokenAndWheel(RawName))
        => LET d == DistinctCasings(RawName)
           IN  /\ Len(gacha_out) = 6 * Len(d)
               /\ \A p \in 0 .. (Len(gacha_out) - 1) :
                     gacha_out[p + 1] = d[(p \div 6) + 1] \o SuffixAt(p % 6)
               /\ \A i, j \in 1 .. Len(gacha_out) :
                     i # j => gacha_out[i] # gacha_out[j]
               /\ Cardinality({RawName, StrTitle(RawName), StrLower(RawName)}) = 3
                     => Len(gacha_out) = 18

\* C13 witness: a raw value of three different casings returned 18 entries.
C13_Witness ==
    /\ gacha_pc = "returned"
    /\ ~HasTokenAndWheel(RawName)
    /\ Cardinality({RawName, StrTitle(RawName), StrLower(RawName)}) = 3
    /\ Len(gacha_out) = 18

\* C14: a conversation whose values are all collected ends in one of four
\* ways, told apart by what the handler sends: the too-many-combinations
\* error (exactly when the product exceeds MAX_COMBINATIONS), the empty list,
\* not found (find_first_live_url returned None), found (it returned a
\* candidate). In the first two find_first_live_url was never called, and it
\* is only ever called with a non-empty list after generation returned.
C14_FourOutcomes ==
    /\ h_pc # "end_index"
    /\ h_pc = "end_error"
          => /\ gen_pc = "raised"
             /\ FullProduct > MAX_COMBINATIONS
             /\ h_reply[1] = "error"
             /\ NoSearch
    /\ h_pc = "end_empty"
          => /\ h_urls = <<>>
             /\ h_reply[1] = "nothing"
             /\ NoSearch
    /\ h_pc = "end_notfound"
          => /\ cpc = "returned"
             /\ found = None
             /\ h_reply[1] = "total"
    /\ h_pc = "end_found"
          => /\ cpc = "returned"
             /\ found \in Range(h_urls)
             /\ h_reply[1] = "total"
    /\ cpc # "nocall"
          => /\ h_pc \in {"search", "end_notfound", "end_found"}
             /\ gen_pc = "returned"
             /\ FullProduct <= MAX_COMBINATIONS
             /\ urls = h_urls
             /\ h_urls # <<>>

\* C14 witness: a custom template of several tags ended with the
\* too-many-combinations error.
C14_Witness ==
    /\ h_pc = "end_error"
    /\ h_marker \in Templates
    /\ FullProduct > MAX_COMBINATIONS
    /\ NoSearch

\* C16: check_url issues HEAD first and returns True on its status 200; it
\* issues GET only after a HEAD that did not end with status 200, and then
\* returns True exactly when GET ends with status 200; whatever the two
\* requests end with it returns a boolean and raises nothing.
C16_HeadThenGet ==
    /\ c_pc # "raised"
    /\ Len(c_reqs) <= 2
    /\ Len(c_reqs) >= 1 => c_reqs[1] = "HEAD"
    /\ Len(c_reqs) = 2 => c_reqs[2] = "GET" /\ c_head # "200"
    /\ c_pc = "returned"
          => /\ Len(c_ret) = 1
             /\ c_ret[1] \in BOOLEAN
             /\ IF c_head = "200"
                THEN c_reqs = <<"HEAD">> /\ c_ret[1]
                ELSE c_reqs = <<"HEAD", "GET">> /\ (c_ret[1] <=> c_get = "200")

\* C16 witness: HEAD timed out, GET answered 200, check_url returned True.
C16_Witness ==
    /\ c_pc = "returned"
    /\ c_head = "timeout"
    /\ c_get = "200"
    /\ c_reqs = <<"HEAD", "GET">>
    /\ c_ret = <<TRUE>>

\* C21: when find_first_live_url returns a URL whose success report went
\* through, that report is the text the progress message shows at the return:
\* no progress report and no other success report was written after it.
C21_SuccessReportIsLast ==
    (/\ cpc = "returned"
     /\ found # None
     /\ \E w \in reported : wret[w] = found)
        => sink = <<"found", found>>

\* C22: once the worker running check_url was cancelled, check_url issues no
\* further request: cancelled during HEAD, it does not go on to GET.
C22_NoRequestAfterCancel == [][c_cancelled => c_reqs' = c_reqs]_vars

====
